---- MODULE Spec2Model ----
(***************************************************************************)
(* Model of pest's error value (src/pest/src/error.rs): the three-variant  *)
(* Error record, renamed_rules, message, parsing_error_message, enumerate, *)
(* underline, format and description.                                      *)
(*                                                                         *)
(* A text (Rust String / &str) is a sequence of one-character strings.     *)
(* A function that can panic returns [text, trace, ok]; ok = FALSE is the  *)
(* panic.  trace is the sequence of calls made to enumerate and to the     *)
(* rule-rendering closure f, in evaluation order.                          *)
(***************************************************************************)
EXTENDS Integers, Sequences, FiniteSets, TLC

VARIABLES record, out, call, trace, failed

vars == <<record, out, call, trace, failed>>

(* ---- bounds ---- *)
MaxLen == 3
MaxRule == 2
MaxOffset == 3

(* ---- text helpers ---- *)
NL == "\n"

RECURSIVE Spaces(_)
Spaces(n) == IF n <= 0 THEN <<>> ELSE <<" ">> \o Spaces(n - 1)

RECURSIVE Dashes(_)
Dashes(n) == IF n <= 0 THEN <<>> ELSE <<"-">> \o Dashes(n - 1)

Digit(d) == <<"0", "1", "2", "3", "4", "5", "6", "7", "8", "9">>[d + 1]

\* format!("{}", n) / format!("{:?}", n) of an unsigned integer
RECURSIVE Decimal(_)
Decimal(n) == IF n < 10 THEN <<Digit(n)>> ELSE Decimal(n \div 10) \o <<Digit(n % 10)>>

\* [text].join(sep)
RECURSIVE Join(_, _)
Join(texts, sep) ==
    IF texts = <<>> THEN <<>>
    ELSE IF Len(texts) = 1 THEN texts[1]
    ELSE texts[1] \o sep \o Join(Tail(texts), sep)

(* ---- Position and Span (position.rs / span.rs, known by their contract) ---- *)
Input1 == <<"a", "b", NL, "c", "d", NL, "e", "f">>
Input2 == <<NL, NL, NL, NL, NL, NL, NL, NL, NL, "x", "y">>
Inputs == {Input1, Input2}

\* 0-based offset of the first character of the line that holds offset p
RECURSIVE LineStart(_, _)
LineStart(input, p) ==
    IF p = 0 THEN 0
    ELSE IF input[p] = NL THEN p
    ELSE LineStart(input, p - 1)

\* 0-based offset just past the last character of the line that holds offset p
RECURSIVE LineEnd(_, _)
LineEnd(input, p) ==
    IF p >= Len(input) THEN Len(input)
    ELSE IF input[p + 1] = NL THEN p
    ELSE LineEnd(input, p + 1)

NewlinesBefore(input, p) == Cardinality({i \in 1..p : input[i] = NL})

line_col(pos) ==
    [line |-> NewlinesBefore(pos.input, pos.pos) + 1,
     col |-> pos.pos - LineStart(pos.input, pos.pos) + 1]

line_of(pos) ==
    SubSeq(pos.input, LineStart(pos.input, pos.pos) + 1, LineEnd(pos.input, pos.pos))

span_start(span) == span.start
span_end(span) == span.end
span_split(span) ==
    <<[input |-> span.input, pos |-> span.start], [input |-> span.input, pos |-> span.end]>>

(* ---- the Error enum ---- *)
ParsingError(positives, negatives, pos) ==
    [tag |-> "ParsingError", positives |-> positives, negatives |-> negatives, pos |-> pos]
CustomErrorPos(message, pos) ==
    [tag |-> "CustomErrorPos", message |-> message, pos |-> pos]
CustomErrorSpan(message, span) ==
    [tag |-> "CustomErrorSpan", message |-> message, span |-> span]

(* ---- rule-rendering closures (F: FnMut(&R) -> String) ---- *)
Renderers == {"debug", "succ", "counter"}

FCall(r) == [fn |-> "f", arg |-> r]
EnumCall(l) == [fn |-> "enumerate", arg |-> l]
IsFCall(e) == e.fn = "f"
NCalls(tr) == Len(SelectSeq(tr, IsFCall))

\* f(&r), where n calls of f came before this one
Render(f, r, n) ==
    CASE f = "debug" -> Decimal(r)
      [] f = "succ" -> Decimal(r + 1)
      [] f = "counter" -> Decimal(r) \o <<"#">> \o Decimal(n)

Ret(text, tr) == [text |-> text, trace |-> tr, ok |-> TRUE]
Panic(tr) == [text |-> <<>>, trace |-> tr, ok |-> FALSE]

\* one call f(&r): its text, and the trace with the call appended
CallF(f, r, tr) == Ret(Render(f, r, NCalls(tr)), Append(tr, FCall(r)))

\* rules.iter().map(|r| f(r)).collect::<Vec<_>>(): the texts, and the trace after them
RECURSIVE MapF(_, _, _)
MapF(rules, f, tr) ==
    IF rules = <<>> THEN [texts |-> <<>>, trace |-> tr]
    ELSE LET rest == MapF(Tail(rules), f, Append(tr, FCall(rules[1])))
         IN [texts |-> <<Render(f, rules[1], NCalls(tr))>> \o rest.texts,
             trace |-> rest.trace]

\* format!("{} or {}", a, f(&r)): the second render follows the first
OrPair(a, r, f) ==
    Ret(a.text \o <<" ", "o", "r", " ">> \o Render(f, r, NCalls(a.trace)),
        Append(a.trace, FCall(r)))

\* format!("{}, or {}", separated, f(&r)) where m holds the mapped prefix
OrLast(m, r, f) ==
    Ret(Join(m.texts, <<",", " ">>) \o <<",", " ", "o", "r", " ">>
            \o Render(f, r, NCalls(m.trace)),
        Append(m.trace, FCall(r)))

\* the arm `l => ...` of enumerate; l - 1 is a usize subtraction
EnumerateMany(rules, f, t0) ==
    IF Len(rules) - 1 < 0 THEN Panic(t0)
    ELSE OrLast(MapF(SubSeq(rules, 1, Len(rules) - 1), f, t0), rules[Len(rules)], f)

\* variant of enumerate without the two-item arm
enumerate_no_pair(rules, f, tr) ==
    CASE Len(rules) = 1 -> CallF(f, rules[1], Append(tr, EnumCall(1)))
      [] OTHER -> EnumerateMany(rules, f, Append(tr, EnumCall(Len(rules))))

enumerate(rules, f, tr) ==
    CASE Len(rules) = 1 -> CallF(f, rules[1], Append(tr, EnumCall(1)))
      [] Len(rules) = 2 -> OrPair(CallF(f, rules[1], Append(tr, EnumCall(2))), rules[2], f)
      [] OTHER -> EnumerateMany(rules, f, Append(tr, EnumCall(Len(rules))))

Unexpected == <<"u", "n", "e", "x", "p", "e", "c", "t", "e", "d", " ">>
Expected == <<"e", "x", "p", "e", "c", "t", "e", "d", " ">>
SemiExpected == <<";", " ">> \o Expected
UnknownParsingError ==
    <<"u", "n", "k", "n", "o", "w", "n", " ", "p", "a", "r", "s", "i", "n", "g", " ",
      "e", "r", "r", "o", "r">>

\* format!("unexpected {}", e) and format!("expected {}", e); a panic of e propagates
Prefixed(prefix, e) == IF e.ok THEN Ret(prefix \o e.text, e.trace) ELSE e

\* format!("unexpected {}; expected {}", n, p), n and p already evaluated in that order
UnexpectedExpected(n, p) ==
    IF p.ok THEN Ret(Unexpected \o n.text \o SemiExpected \o p.text, p.trace) ELSE p

\* the arm (false, false): enumerate(negatives) is evaluated before enumerate(positives)
NegativesThenPositives(n, positives, f) ==
    IF n.ok THEN UnexpectedExpected(n, enumerate(positives, f, n.trace)) ELSE n

\* the same arm with the two arguments evaluated in the other order
PositivesThenNegatives(p, negatives, f) ==
    IF p.ok THEN UnexpectedExpected(enumerate(negatives, f, p.trace),
                                    [p EXCEPT !.trace = enumerate(negatives, f, p.trace).trace])
    ELSE p

\* variant of parsing_error_message with the one-sided prefixes exchanged
parsing_error_message_prefix(positives, negatives, f, tr) ==
    CASE negatives # <<>> /\ positives # <<>> ->
           NegativesThenPositives(enumerate(negatives, f, tr), positives, f)
      [] negatives # <<>> /\ positives = <<>> -> Prefixed(Expected, enumerate(negatives, f, tr))
      [] negatives = <<>> /\ positives # <<>> -> Prefixed(Unexpected, enumerate(positives, f, tr))
      [] negatives = <<>> /\ positives = <<>> -> Ret(UnknownParsingError, tr)

\* variant of parsing_error_message without the arm for two empty lists
parsing_error_message_no_fallback(positives, negatives, f, tr) ==
    CASE negatives # <<>> /\ positives # <<>> ->
           NegativesThenPositives(enumerate(negatives, f, tr), positives, f)
      [] negatives # <<>> /\ positives = <<>> -> Prefixed(Unexpected, enumerate(negatives, f, tr))
      [] OTHER -> Prefixed(Expected, enumerate(positives, f, tr))

\* variant of parsing_error_message that renders the positives before the negatives
parsing_error_message_pos_first(positives, negatives, f, tr) ==
    CASE negatives # <<>> /\ positives # <<>> ->
           PositivesThenNegatives(enumerate(positives, f, tr), negatives, f)
      [] negatives # <<>> /\ positives = <<>> -> Prefixed(Unexpected, enumerate(negatives, f, tr))
      [] negatives = <<>> /\ positives # <<>> -> Prefixed(Expected, enumerate(positives, f, tr))
      [] negatives = <<>> /\ positives = <<>> -> Ret(UnknownParsingError, tr)

parsing_error_message(positives, negatives, f, tr) ==
    CASE negatives # <<>> /\ positives # <<>> ->
           NegativesThenPositives(enumerate(negatives, f, tr), positives, f)
      [] negatives # <<>> /\ positives = <<>> -> Prefixed(Unexpected, enumerate(negatives, f, tr))
      [] negatives = <<>> /\ positives # <<>> -> Prefixed(Expected, enumerate(positives, f, tr))
      [] negatives = <<>> /\ positives = <<>> -> Ret(UnknownParsingError, tr)

\* what renamed_rules returns: the record, the calls made, and whether it returned
Renamed(error, tr, ok) == [error |-> error, trace |-> tr, ok |-> ok]

\* Error::CustomErrorPos { message, pos } built from the composed message m
RenamedTo(m, pos) == Renamed(CustomErrorPos(m.text, pos), m.trace, m.ok)

\* variant of renamed_rules that passes the two lists in the wrong order
renamed_rules_swapped(self, f) ==
    IF self.tag = "ParsingError"
    THEN RenamedTo(parsing_error_message(self.negatives, self.positives, f, <<>>), self.pos)
    ELSE Renamed(self, <<>>, TRUE)

\* variant of renamed_rules that renders but keeps the ParsingError shape
renamed_rules_keep(self, f) ==
    IF self.tag = "ParsingError"
    THEN Renamed(self, parsing_error_message(self.positives, self.negatives, f, <<>>).trace,
                 TRUE)
    ELSE Renamed(self, <<>>, TRUE)

renamed_rules(self, f) ==
    IF self.tag = "ParsingError"
    THEN RenamedTo(parsing_error_message(self.positives, self.negatives, f, <<>>), self.pos)
    ELSE Renamed(self, <<>>, TRUE)

message(error, tr) ==
    IF error.tag = "ParsingError"
    THEN parsing_error_message(error.positives, error.negatives, "debug", tr)
    ELSE Ret(error.message, tr)

\* variant of SpanMarker whose dash loop starts at 1
SpanMarker_wide(width) ==
    IF width > 1 THEN <<"^">> \o Dashes(width - 1) \o <<"^">> ELSE <<"^">>

\* the marker pushed for a CustomErrorSpan; width = span.end() - span.start()
SpanMarker(width) ==
    IF width > 1 THEN <<"^">> \o Dashes(width - 2) \o <<"^">> ELSE <<"^">>

\* variant of underline that takes its argument as a 1-based column
underline_column(error, offset) ==
    IF error.tag = "CustomErrorSpan"
    THEN IF span_end(error.span) - span_start(error.span) < 0 THEN Panic(<<>>)
         ELSE Ret(Spaces(offset - 1)
                      \o SpanMarker(span_end(error.span) - span_start(error.span)), <<>>)
    ELSE Ret(Spaces(offset - 1) \o <<"^", "-", "-", "-">>, <<>>)

\* span.end() - span.start() is a usize subtraction
underline(error, offset) ==
    IF error.tag = "CustomErrorSpan"
    THEN IF span_end(error.span) - span_start(error.span) < 0 THEN Panic(<<>>)
         ELSE Ret(Spaces(offset)
                      \o SpanMarker(span_end(error.span) - span_start(error.span)), <<>>)
    ELSE Ret(Spaces(offset) \o <<"^", "-", "-", "-">>, <<>>)

\* the position format anchors the report to
AnchorPos(error) ==
    IF error.tag = "CustomErrorSpan" THEN span_split(error.span)[1] ELSE error.pos

\* the six pieces format pushes, given the underline u and the message m
Assemble(spacing, line, col, source, u, m) ==
    IF ~u.ok THEN u
    ELSE IF ~m.ok THEN m
    ELSE Ret(spacing \o <<"-", "-", ">", " ">> \o line \o <<":">> \o col \o <<NL>>
                \o spacing \o <<" ", "|", NL>>
                \o line \o <<" ", "|", " ">> \o source \o <<NL>>
                \o spacing \o <<" ", "|", " ">> \o u.text \o <<NL>>
                \o spacing \o <<" ", "|", NL>>
                \o spacing \o <<" ", "=", " ">> \o m.text,
             m.trace)

\* variant of FormatAt with a one-character gutter
FormatAt_fixed_gutter(error, pos, line, col) ==
    IF col - 1 < 0 THEN Panic(<<>>)
    ELSE Assemble(Spaces(1), Decimal(line), Decimal(col), line_of(pos),
                  underline(error, col - 1), message(error, <<>>))

\* variant of FormatAt that passes the 1-based column to underline
FormatAt_col(error, pos, line, col) ==
    IF col - 1 < 0 THEN Panic(<<>>)
    ELSE Assemble(Spaces(Len(Decimal(line))), Decimal(line), Decimal(col), line_of(pos),
                  underline(error, col), message(error, <<>>))

\* format after `let (line, col) = pos.line_col()`; col - 1 is a usize subtraction
FormatAt(error, pos, line, col) ==
    IF col - 1 < 0 THEN Panic(<<>>)
    ELSE Assemble(Spaces(Len(Decimal(line))), Decimal(line), Decimal(col), line_of(pos),
                  underline(error, col - 1), message(error, <<>>))

format(error) ==
    FormatAt(error, AnchorPos(error), line_col(AnchorPos(error)).line,
             line_col(AnchorPos(error)).col)

ParsingErrorText == <<"p", "a", "r", "s", "i", "n", "g", " ", "e", "r", "r", "o", "r">>

description(error) ==
    IF error.tag = "ParsingError" THEN ParsingErrorText ELSE error.message

(* ---- the records a caller can build ---- *)
Rules == 1..MaxRule

RECURSIVE SeqsUpTo(_, _)
SeqsUpTo(S, n) ==
    IF n = 0 THEN {<<>>}
    ELSE LET prev == SeqsUpTo(S, n - 1)
         IN prev \cup {Append(s, x) : s \in {t \in prev : Len(t) = n - 1}, x \in S}

RuleSeqs == SeqsUpTo(Rules, MaxLen)

BigOne == <<"e", "r", "r", "o", "r", ":", " ", "b", "i", "g", " ", "o", "n", "e">>
TwoLines == <<"a", NL, "b">>
Messages == {BigOne, TwoLines, <<>>}

Positions == UNION {{[input |-> i, pos |-> p] : p \in 0..Len(i)} : i \in Inputs}

Spans ==
    UNION {{[input |-> i, start |-> s, end |-> e] : s \in 0..Len(i), e \in 0..Len(i)}
           : i \in Inputs}

\* Span's invariant: start <= end
ValidSpans == {sp \in Spans : sp.start <= sp.end}

\* the records built by the tests of error.rs
TestPos == [input |-> Input1, pos |-> 4]
TestRecords ==
    {ParsingError(<<1, 2, 3>>, <<4, 5, 6>>, TestPos),
     ParsingError(<<1, 2>>, <<>>, TestPos),
     ParsingError(<<>>, <<4, 5, 6>>, TestPos),
     ParsingError(<<>>, <<>>, TestPos),
     CustomErrorPos(BigOne, TestPos)}

\* the deepest position of the bounded attempt records: line 10, col 3 of Input2
\* (the test records add line 2, col 2 of Input1)
AttemptPositions == {[input |-> Input2, pos |-> Len(Input2)]}

Records ==
    {ParsingError(p, n, pos) : p \in RuleSeqs, n \in RuleSeqs, pos \in AttemptPositions}
    \cup {CustomErrorPos(m, pos) : m \in Messages, pos \in Positions}
    \cup {CustomErrorSpan(m, sp) : m \in Messages, sp \in ValidSpans}
    \cup TestRecords

(* ---- state machine ---- *)
Call(op, f, offset) == [op |-> op, f |-> f, offset |-> offset]

Init ==
    /\ record \in Records
    /\ out = <<>>
    /\ call = Call("new", "debug", 0)
    /\ trace = <<>>
    /\ failed = FALSE

\* an operation that returns the text r.text after the calls r.trace (or panics)
Returns(r) ==
    /\ out' = r.text
    /\ trace' = r.trace
    /\ failed' = ~r.ok

\* the record r.error comes back from renamed_rules, which consumed self
Replaces(r) ==
    /\ record' = r.error
    /\ trace' = r.trace
    /\ failed' = ~r.ok

\* error.renamed_rules(f)
Rename(f) ==
    /\ ~failed
    /\ Replaces(renamed_rules(record, f))
    /\ out' = <<>>
    /\ call' = Call("rename", f, 0)

\* format!("{}", error)
Display ==
    /\ ~failed
    /\ Returns(format(record))
    /\ call' = Call("display", "debug", 0)
    /\ UNCHANGED record

\* error.description()
Description ==
    /\ ~failed
    /\ out' = description(record)
    /\ trace' = <<>>
    /\ call' = Call("description", "debug", 0)
    /\ UNCHANGED <<record, failed>>

\* enumerate(&positives, &mut f), under its precondition (a non-empty slice)
Enumerate(f) ==
    /\ ~failed
    /\ record.tag = "ParsingError"
    /\ record.positives # <<>>
    /\ Returns(enumerate(record.positives, f, <<>>))
    /\ call' = Call("enumerate", f, 0)
    /\ UNCHANGED record

\* underline(&error, offset)
Underline(offset) ==
    /\ ~failed
    /\ Returns(underline(record, offset))
    /\ call' = Call("underline", "debug", offset)
    /\ UNCHANGED record

Next ==
    \/ \E f \in Renderers : Rename(f)
    \/ Display
    \/ Description
    \/ \E f \in Renderers : Enumerate(f)
    \/ \E offset \in 0..MaxOffset : Underline(offset)

Spec == Init /\ [][Next]_vars

(* ======================= properties ======================= *)

\* the rows of a text: its pieces between newline characters
RECURSIVE Rows(_)
Rows(text) ==
    IF \A i \in 1..Len(text) : text[i] # NL THEN <<text>>
    ELSE LET k == CHOOSE i \in 1..Len(text) :
                      text[i] = NL /\ \A j \in 1..(i - 1) : text[j] # NL
         IN <<SubSeq(text, 1, k - 1)>> \o Rows(SubSeq(text, k + 1, Len(text)))

HasNL(text) == \E i \in 1..Len(text) : text[i] = NL

\* number of space characters before the first other character
LeadCount(text) ==
    IF \A i \in 1..Len(text) : text[i] = " " THEN Len(text)
    ELSE (CHOOSE i \in 1..Len(text) : text[i] # " " /\ \A j \in 1..(i - 1) : text[j] = " ") - 1

MarkerPart(text) == SubSeq(text, LeadCount(text) + 1, Len(text))

StartsWith(text, prefix) ==
    Len(text) >= Len(prefix) /\ SubSeq(text, 1, Len(prefix)) = prefix

EndsWith(text, suffix) ==
    Len(text) >= Len(suffix) /\ SubSeq(text, Len(text) - Len(suffix) + 1, Len(text)) = suffix

\* what the i-th element renders to when n0 calls of f came before the list
Rendered(f, rules, n0) == [i \in 1..Len(rules) |-> Render(f, rules[i], n0 + i - 1)]

RECURSIVE CommaList(_)
CommaList(texts) ==
    IF Len(texts) = 1 THEN texts[1]
    ELSE texts[1] \o <<",", " ">> \o CommaList(Tail(texts))

\* the English list of the claim: "a", "a or b", "a, b, or c"
EnumText(texts) ==
    LET n == Len(texts)
    IN IF n = 1 THEN texts[1]
       ELSE IF n = 2 THEN texts[1] \o <<" ", "o", "r", " ">> \o texts[2]
       ELSE CommaList(SubSeq(texts, 1, n - 1)) \o <<",", " ", "o", "r", " ">> \o texts[n]

\* the message table of the claim, negatives rendered before positives
ComposeText(positives, negatives, f) ==
    LET N == Rendered(f, negatives, 0)
        P == Rendered(f, positives, Len(negatives))
    IN IF negatives # <<>> /\ positives # <<>>
       THEN Unexpected \o EnumText(N) \o <<";", " ">> \o Expected \o EnumText(P)
       ELSE IF negatives # <<>> THEN Unexpected \o EnumText(N)
       ELSE IF positives # <<>> THEN Expected \o EnumText(P)
       ELSE UnknownParsingError

FArgs(tr) == [i \in 1..NCalls(tr) |-> SelectSeq(tr, IsFCall)[i].arg]

IsEnumCall(e) == e.fn = "enumerate"
EnumArgs(tr) == [i \in 1..Len(SelectSeq(tr, IsEnumCall)) |-> SelectSeq(tr, IsEnumCall)[i].arg]

MixedRecord == ParsingError(<<1, 2, 3>>, <<4, 5, 6>>, TestPos)

MixedMessage ==
    <<"u", "n", "e", "x", "p", "e", "c", "t", "e", "d", " ", "4", ",", " ", "5", ",",
      " ", "o", "r", " ", "6", ";", " ", "e", "x", "p", "e", "c", "t", "e", "d", " ",
      "1", ",", " ", "2", ",", " ", "o", "r", " ", "3">>

MappedMessage ==
    <<"u", "n", "e", "x", "p", "e", "c", "t", "e", "d", " ", "5", ",", " ", "6", ",",
      " ", "o", "r", " ", "7", ";", " ", "e", "x", "p", "e", "c", "t", "e", "d", " ",
      "2", ",", " ", "3", ",", " ", "o", "r", " ", "4">>

MixedReport ==
    <<" ", "-", "-", ">", " ", "2", ":", "2", NL, " ", " ", "|", NL, "2", " ", "|", " ",
      "c", "d", NL, " ", " ", "|", " ", " ", "^", "-", "-", "-", NL, " ", " ", "|", NL,
      " ", " ", "=", " ", "u", "n", "e", "x", "p", "e", "c", "t", "e", "d", " ", "4",
      ",", " ", "5", ",", " ", "o", "r", " ", "6", ";", " ", "e", "x", "p", "e", "c",
      "t", "e", "d", " ", "1", ",", " ", "2", ",", " ", "o", "r", " ", "3">>

TestUnderlineRow ==
    <<" ", " ", "|", " ", " ", "^", "-", "-", "-">>

(* ---- C1 ---- *)
\* C1: renamed_rules returns a CustomErrorPos or CustomErrorSpan record unchanged, and
\* turns a ParsingError into the CustomErrorPos that keeps pos and whose message is the
\* composed message of its positives and negatives under the given rendering function;
\* renaming the mixed test record with n -> n + 1 gives the message pinned by the test.
C1_RenameContract ==
    [][call'.op = "rename" =>
         /\ IF record.tag = "ParsingError"
            THEN record' = CustomErrorPos(
                     ComposeText(record.positives, record.negatives, call'.f), record.pos)
            ELSE record' = record
         /\ (record = MixedRecord /\ call'.f = "succ"
                => record' = CustomErrorPos(MappedMessage, TestPos))]_vars

C1_Witness ==
    /\ call = Call("rename", "succ", 0)
    /\ record = CustomErrorPos(MappedMessage, TestPos)
    /\ FArgs(trace) = <<4, 5, 6, 1, 2, 3>>

(* ---- C2 ---- *)
\* C2: the composed message is "unexpected N; expected P", "unexpected N", "expected P"
\* or "unknown parsing error" according to which of negatives and positives are empty,
\* both when renaming and when displaying, and enumerate is never called on an empty
\* sequence while composing.
C2_ComposeTable ==
    [][(record.tag = "ParsingError" /\ call'.op \in {"rename", "display"}) =>
         LET msg == ComposeText(record.positives, record.negatives, call'.f)
         IN /\ call'.op = "rename" => record'.message = msg
            /\ call'.op = "display" => EndsWith(out', <<" ", "=", " ">> \o msg)
            /\ \A i \in 1..Len(EnumArgs(trace')) : EnumArgs(trace')[i] >= 1
            /\ Len(EnumArgs(trace')) =
                 (IF record.negatives = <<>> THEN 0 ELSE 1)
                 + (IF record.positives = <<>> THEN 0 ELSE 1)]_vars

C2_Witness ==
    /\ call.op = "display"
    /\ record = MixedRecord
    /\ EndsWith(out, <<" ", "=", " ">> \o MixedMessage)
    /\ EnumArgs(trace) = <<3, 3>>

(* ---- C3 ---- *)
\* C3: on a non-empty sequence enumerate returns the single render for length 1,
\* "a or b" without a comma for length 2, and for length n >= 3 the first n - 1 renders
\* joined by ", " followed by ", or last"; items stay in input order, duplicates kept.
C3_EnumerateGrammar ==
    (call.op = "enumerate" /\ ~failed) =>
        LET items == record.positives
            texts == Rendered(call.f, items, 0)
            n == Len(items)
        IN /\ n = 1 => out = texts[1]
           /\ n = 2 => out = texts[1] \o <<" ", "o", "r", " ">> \o texts[2]
           /\ n >= 3 => out = CommaList(SubSeq(texts, 1, n - 1))
                                 \o <<",", " ", "o", "r", " ">> \o texts[n]
           /\ FArgs(trace) = items

C3_Witness ==
    /\ call = Call("enumerate", "debug", 0)
    /\ record.tag = "ParsingError"
    /\ record.positives = <<2, 1, 2>>
    /\ out = <<"2", ",", " ", "1", ",", " ", "o", "r", " ", "2">>

(* ---- C4 ---- *)
SpanWidth(error) == error.span.end - error.span.start

\* the marker of the claim for a span of width w
IsSpanMarker(m, w) ==
    IF w > 1
    THEN /\ Len(m) = w
         /\ m[1] = "^"
         /\ m[w] = "^"
         /\ \A i \in 2..(w - 1) : m[i] = "-"
    ELSE m = <<"^">>

\* C4: for a CustomErrorSpan of width w = end - start the text of underline after its
\* leading spaces is '^', w - 2 dashes, '^' (w characters) when w > 1, and the single
\* character '^' when w <= 1; the same marker ends row 4 of the report.
C4_SpanMarker ==
    (record.tag = "CustomErrorSpan" /\ ~failed) =>
        /\ call.op = "underline" => IsSpanMarker(MarkerPart(out), SpanWidth(record))
        /\ call.op = "display" =>
             IsSpanMarker(MarkerPart(SubSeq(Rows(out)[4],
                                            Len(Decimal(line_col(AnchorPos(record)).line)) + 3,
                                            Len(Rows(out)[4]))),
                          SpanWidth(record))

C4_Witness ==
    /\ call.op = "underline"
    /\ record.tag = "CustomErrorSpan"
    /\ SpanWidth(record) = 4
    /\ MarkerPart(out) = <<"^", "-", "-", "^">>

(* ---- C5 ---- *)
\* C5: rendering and renaming never fail: for every record with line >= 1, col >= 1 and
\* span start <= end, empty rule lists, zero-width spans and multi-digit line numbers
\* included, no operation reaches the failure state, a display ends with a non-empty
\* text and a rename ends with a record of one of the three variants.
C5_Total ==
    /\ ~failed
    /\ call.op = "display" => out # <<>>
    /\ record.tag \in {"ParsingError", "CustomErrorPos", "CustomErrorSpan"}
    /\ \A i \in 1..Len(EnumArgs(trace)) : EnumArgs(trace)[i] >= 1

C5_Witness ==
    /\ call.op = "display"
    /\ record.tag = "ParsingError"
    /\ record.positives = <<>>
    /\ record.negatives = <<>>
    /\ line_col(record.pos).line >= 10
    /\ line_col(record.pos).col >= 1
    /\ EndsWith(out, UnknownParsingError)
    /\ ~failed

(* ---- C6 ---- *)
Gutter(error) == Spaces(Len(Decimal(line_col(AnchorPos(error)).line)))

\* the six rows of the claim, for the record shown and its message text
SixRows(error, text, msg) ==
    LET rows == Rows(text)
        lc == line_col(AnchorPos(error))
        g == Gutter(error)
    IN /\ Len(rows) = 6
       /\ text[Len(text)] # NL
       /\ rows[1] = g \o <<"-", "-", ">", " ">> \o Decimal(lc.line) \o <<":">> \o Decimal(lc.col)
       /\ rows[2] = g \o <<" ", "|">>
       /\ rows[3] = Decimal(lc.line) \o <<" ", "|", " ">> \o line_of(AnchorPos(error))
       /\ StartsWith(rows[4], g \o <<" ", "|", " ">>)
       /\ MarkerPart(rows[4])[1] = "|"
       /\ rows[5] = g \o <<" ", "|">>
       /\ rows[6] = g \o <<" ", "=", " ">> \o msg
       /\ \A r \in 2..5 : rows[r][Len(g) + 2] = "|"

\* the message a report shows: the stored one, or the composed one with debug renders
ShownMessage(error) ==
    IF error.tag = "ParsingError"
    THEN ComposeText(error.positives, error.negatives, "debug")
    ELSE error.message

\* C6 as stated: every report has exactly six rows.
C6_Original ==
    (call.op = "display" /\ ~failed) => SixRows(record, out, ShownMessage(record))

\* C6 amended: when the message shown contains no newline, the report is exactly six
\* rows joined by newline with no trailing newline (header, blank gutter, source line,
\* underline, blank gutter, message), the gutter is as many spaces as the line number
\* has decimal digits, row 3 starts with the line number, and the '|' of rows 2 to 5
\* are in the same column; the mixed test record gives the text pinned by the test.
C6_SixRows ==
    (call.op = "display" /\ ~failed) =>
        /\ ~HasNL(ShownMessage(record)) => SixRows(record, out, ShownMessage(record))
        /\ record = MixedRecord => out = MixedReport

C6_Witness ==
    /\ call.op = "display"
    /\ record.tag = "CustomErrorSpan"
    /\ record.message = BigOne
    /\ line_col(AnchorPos(record)).line = 10
    /\ Len(Rows(out)) = 6
    /\ StartsWith(Rows(out)[3], <<"1", "0", " ", "|", " ">>)
    /\ StartsWith(Rows(out)[4], <<" ", " ", " ", "|", " ">>)

(* ---- C7 ---- *)
\* C7: for a ParsingError or CustomErrorPos anchored at (line, col), row 4 of the report
\* is the gutter, " | ", col - 1 spaces and the literal "^---", so the caret is in the
\* text column of the col-th character of the source line on row 3; at line 2, col 2
\* the row is "  |  ^---".
C7_PointMarkerRow ==
    (call.op = "display" /\ record.tag # "CustomErrorSpan" /\ ~failed) =>
        LET lc == line_col(record.pos)
            rows == Rows(out)
            g == Gutter(record)
            caret == Len(g) + 3 + lc.col
        IN /\ rows[4] = g \o <<" ", "|", " ">> \o Spaces(lc.col - 1) \o <<"^", "-", "-", "-">>
           /\ rows[4][caret] = "^"
           /\ lc.col <= Len(line_of(record.pos)) => rows[3][caret] = line_of(record.pos)[lc.col]
           /\ record.pos = TestPos => rows[4] = TestUnderlineRow

C7_Witness ==
    /\ call.op = "display"
    /\ record = CustomErrorPos(BigOne, TestPos)
    /\ Rows(out)[3] = <<"2", " ", "|", " ", "c", "d">>
    /\ Rows(out)[4] = TestUnderlineRow

(* ---- C8 ---- *)
\* C8 as stated: underline(record, c) has exactly c - 1 spaces before the marker.
C8_Original ==
    (call.op = "underline" /\ call.offset >= 1 /\ ~failed) =>
        /\ LeadCount(out) = call.offset - 1
        /\ out[call.offset] = "^"

\* C8 amended: for every record and every argument c >= 0, underline(record, c) begins
\* with exactly c spaces before the first '^' of the marker (format passes col - 1, which
\* puts col - 1 spaces on row 4).
C8_LeadingSpaces ==
    (call.op = "underline" /\ ~failed) =>
        /\ LeadCount(out) = call.offset
        /\ out[call.offset + 1] = "^"
        /\ \A i \in 1..call.offset : out[i] = " "

C8_Witness ==
    /\ call.op = "underline"
    /\ call.offset = 2
    /\ record.tag = "CustomErrorPos"
    /\ out = <<" ", " ", "^", "-", "-", "-">>

(* ---- C9 ---- *)
\* the marker of the underline row, by variant
MarkerOf(error) ==
    IF error.tag = "CustomErrorSpan"
    THEN (IF SpanWidth(error) > 1
          THEN <<"^">> \o Dashes(SpanWidth(error) - 2) \o <<"^">>
          ELSE <<"^">>)
    ELSE <<"^", "-", "-", "-">>

\* the report as a function of the record alone
ReportText(error) ==
    LET lc == line_col(AnchorPos(error))
        g == Gutter(error)
    IN g \o <<"-", "-", ">", " ">> \o Decimal(lc.line) \o <<":">> \o Decimal(lc.col) \o <<NL>>
       \o g \o <<" ", "|", NL>>
       \o Decimal(lc.line) \o <<" ", "|", " ">> \o line_of(AnchorPos(error)) \o <<NL>>
       \o g \o <<" ", "|", " ">> \o Spaces(lc.col - 1) \o MarkerOf(error) \o <<NL>>
       \o g \o <<" ", "|", NL>>
       \o g \o <<" ", "=", " ">> \o ShownMessage(error)

\* C9: renaming is one-shot: after a rename the record is not a ParsingError, a record
\* that is not a ParsingError is never changed again by any operation, a rename of it
\* calls no rendering function, no rendering operation changes the record, and the text
\* of a display is determined by the record alone, so that displaying again returns the
\* same text.
C9_OneShotRename ==
    /\ [](call.op = "display" => out = ReportText(record))
    /\ [][/\ call'.op = "rename" => record'.tag # "ParsingError"
          /\ record.tag # "ParsingError" => record' = record
          /\ (call'.op = "rename" /\ record.tag # "ParsingError") => trace' = <<>>
          /\ call'.op \in {"display", "description", "underline", "enumerate"}
                => record' = record
          /\ (call.op = "display" /\ call'.op = "display") => out' = out]_vars

C9_Witness ==
    /\ call.op = "rename"
    /\ record.tag = "CustomErrorPos"
    /\ StartsWith(record.message, Unexpected)
    /\ trace = <<>>

(* ---- C10 ---- *)
\* C10: composing a message calls the rendering function once per element, the negatives
\* in sequence order first and then the positives in sequence order, for lists of every
\* length, and not at all when both are empty; a call-counting function therefore sees
\* the counts 0, 1, 2, ... in that order.
C10_RenderCallOrder ==
    [][(record.tag = "ParsingError" /\ call'.op \in {"rename", "display"}) =>
         /\ FArgs(trace') = record.negatives \o record.positives
         /\ (call'.op = "rename" /\ call'.f = "counter") =>
               record'.message = ComposeText(record.positives, record.negatives, "counter")]_vars

C10_Witness ==
    /\ call.op = "display"
    /\ record.tag = "ParsingError"
    /\ record.negatives = <<2, 1, 1>>
    /\ record.positives = <<1, 2>>
    /\ FArgs(trace) = <<2, 1, 1, 1, 2>>

====
